---- MODULE Spec2Model ----
(***************************************************************************)
(* Reservation workflow of reservas-main/api: creation of reservations     *)
(* (ReservationCreateView), the staff decision approve_or_reject with its  *)
(* overlap query, the Approval upsert, the Notification rows and the       *)
(* Profile rows.                                                           *)
(*   Spec       - create and decide requests, one request at a time.       *)
(*   SpecNotify - register, profile_view and create requests.              *)
(*   SpecConc   - create requests and two approve_or_reject requests whose *)
(*                database operations interleave.                          *)
(***************************************************************************)
EXTENDS Integers, Sequences, FiniteSets, TLC

\* ---------------------------------------------------------------- bounds
MaxReservations == 2    \* Reservation rows created in a run
MaxDecisions == 2       \* decisions carried through in a run

\* ---------------------------------------------------------- input sets
StaffUsers == {"s1", "s2"}          \* User rows with is_staff = True
PlainUsers == {"u1", "u2"}          \* User rows with is_staff = False
AllUsers == StaffUsers \cup PlainUsers
Requesters == {"u1"}                \* users that post reservation forms
Spaces == {"A", "B"}
Times == {0, 1, 2}                  \* instants of the start / end fields
NoteValues == {"", "n"}
RawDecisions == {"approve", "REJ", "bogus"}   \* posted decision values

PENDING == "PEND"
APPROVED == "APPR"
REJECTED == "REJ"

MsgNew == "new"             \* "Nueva reserva pendiente de aprobacion."
MsgApproved == "approved"   \* "Tu reserva '...' fue aprobada."
MsgRejected == "rejected"   \* "Tu reserva '...' fue rechazada."
Messages == {MsgNew, MsgApproved, MsgRejected}

VARIABLES
    users,          \* auth User rows (usernames)
    profiles,       \* users that have a Profile row
    reservations,   \* Reservation rows, pk = index
    approvals,      \* Approval rows of each reservation pk, in id order
    notifications,  \* Notification rows: <<user, message>> -> number of rows
    req,            \* in-flight approve_or_reject requests, one per approver
    last            \* the last response sent

vars == <<users, profiles, reservations, approvals, notifications, req, last>>

\* ------------------------------------------------------------- helpers
is_staff(u) == u \in StaffUsers

Pks == 1..Len(reservations)

\* The queryset of approve_or_reject, with the lookups of a wrong field.
ConflictQueryWrongField(rs, pk) ==
    {k \in 1..Len(rs) :
        /\ rs[k].space = rs[pk].space
        /\ rs[k].status = APPROVED
        /\ k # pk
        /\ rs[k].start < rs[pk].start
        /\ rs[k].end > rs[pk].start}

\* The queryset of approve_or_reject, with closed-interval lookups.
ConflictQueryClosed(rs, pk) ==
    {k \in 1..Len(rs) :
        /\ rs[k].space = rs[pk].space
        /\ rs[k].status = APPROVED
        /\ k # pk
        /\ rs[k].start <= rs[pk].end
        /\ rs[k].end >= rs[pk].start}

\* The queryset of approve_or_reject: same space, status APPROVED, own pk
\* excluded, start__lt = reservation.end, end__gt = reservation.start.
ConflictQuery(rs, pk) ==
    {k \in 1..Len(rs) :
        /\ rs[k].space = rs[pk].space
        /\ rs[k].status = APPROVED
        /\ k # pk
        /\ rs[k].start < rs[pk].end
        /\ rs[k].end > rs[pk].start}

\* .exists()
conflict(rs, pk) == ConflictQuery(rs, pk) # {}

\* Normalisation of the posted decision ('approve'/'reject' of old templates).
NormalizeDecision(d) ==
    IF d \in {"approve", "reject"}
    THEN (IF d = "approve" THEN "APPR" ELSE "REJ")
    ELSE d

\* ApprovalForm.is_valid: the decision must be one of the choices.
ApprovalFormValid(d) == d \in {"APPR", "REJ"}

Row(approver, decision, notes) ==
    [approver |-> approver, decision |-> decision, notes |-> notes]

\* An upsert that always inserts.
always_create(rows, approver, decision, notes) ==
    Append(rows, Row(approver, decision, notes))

\* Approval.objects.update_or_create(reservation=r, defaults={...}) on the
\* Approval rows of r: the row found is updated, otherwise one is inserted.
update_or_create(rows, approver, decision, notes) ==
    IF rows = <<>>
    THEN Append(rows, Row(approver, decision, notes))
    ELSE [rows EXCEPT ![1] = Row(approver, decision, notes)]

\* Notification.objects.create(user=u, message=m)
NotificationCreate(ns, u, m) == [ns EXCEPT ![<<u, m>>] = @ + 1]

RECURSIVE NotifyAll(_, _, _)
NotifyAll(ns, us, m) ==
    IF us = {} THEN ns
    ELSE LET u == CHOOSE x \in us : TRUE
         IN NotifyAll(NotificationCreate(ns, u, m), us \ {u}, m)

\* Profile.objects.filter(user__is_staff=True): the users of those rows.
StaffProfiles(ps) == {u \in ps : is_staff(u)}

\* Model validation of the time window, run by ReservationForm.is_valid.
ReservationClean(start, end) == start < end

\* export_reservations_csv: Approval rows of r, order_by('-id').first().
LatestApproval(rows) == IF rows = <<>> THEN <<>> ELSE <<rows[Len(rows)]>>

RECURSIVE SumOver(_, _)
SumOver(f, S) ==
    IF S = {} THEN 0
    ELSE LET x == CHOOSE y \in S : TRUE IN f[x] + SumOver(f, S \ {x})

\* Owner notifications written so far: one per decision carried through.
DecisionsDone ==
    SumOver(notifications, Requesters \X {MsgApproved, MsgRejected})

Idle == [pc |-> "idle", pk |-> 0, decision |-> "", notes |-> ""]
InFlight == {a \in StaffUsers : req[a].pc # "idle"}

Response(op, user, pk, decision, notes, result) ==
    [op |-> op, user |-> user, pk |-> pk, decision |-> decision,
     notes |-> notes, result |-> result]

StatusOf(d) == IF d = "APPR" THEN APPROVED ELSE REJECTED
MessageOf(d) == IF d = "APPR" THEN MsgApproved ELSE MsgRejected

\* ------------------------------------------------------------------ Init
\* s1 registered through register and was made staff; s2 is a superuser
\* created outside the views (no Profile row); u1 registered.
Init ==
    /\ users = {"s1", "s2", "u1"}
    /\ profiles = {"s1", "u1"}
    /\ reservations = <<>>
    /\ approvals = [pk \in 1..MaxReservations |-> <<>>]
    /\ notifications = [k \in AllUsers \X Messages |-> 0]
    /\ req = [a \in StaffUsers |-> Idle]
    /\ last = Response("none", "", 0, "", "", "")

\* --------------------------------------------------------------- actions
\* register: UserRegistrationForm.save(), then Profile get_or_create.
Register(u) ==
    /\ u \in PlainUsers \ users
    /\ users' = users \cup {u}
    /\ profiles' = profiles \cup {u}
    /\ last' = Response("register", u, 0, "", "", "ok")
    /\ UNCHANGED <<reservations, approvals, notifications, req>>

\* profile_view: Profile.objects.get_or_create(user=request.user)
ProfileView(u) ==
    /\ u \in users
    /\ profiles' = profiles \cup {u}
    /\ last' = Response("profile", u, 0, "", "", "ok")
    /\ UNCHANGED <<users, reservations, approvals, notifications, req>>

\* form_valid that refuses a window another reservation of the space holds.
form_valid_checked(u, sp, s, e) ==
    IF \E k \in Pks : /\ reservations[k].space = sp
                      /\ reservations[k].start < e
                      /\ s < reservations[k].end
    THEN /\ last' = Response("create", "", 0, "", "", "invalid")
         /\ UNCHANGED <<users, profiles, reservations, approvals,
                        notifications, req>>
    ELSE /\ notifications' =
                NotifyAll(notifications, StaffProfiles(profiles), MsgNew)
         /\ reservations' = Append(reservations,
                [user |-> u, space |-> sp, start |-> s, end |-> e,
                 status |-> PENDING])
         /\ last' = Response("create", u, Len(reservations) + 1, "", "", "ok")
         /\ UNCHANGED <<users, profiles, approvals, req>>

\* ReservationCreateView.form_valid: notify the admins, then save the row.
form_valid(u, sp, s, e) ==
    /\ notifications' =
            NotifyAll(notifications, StaffProfiles(profiles), MsgNew)
    /\ reservations' = Append(reservations,
            [user |-> u, space |-> sp, start |-> s, end |-> e,
             status |-> PENDING])
    /\ last' = Response("create", u, Len(reservations) + 1, "", "", "ok")
    /\ UNCHANGED <<users, profiles, approvals, req>>

\* The form re-rendered with its errors.
form_invalid(u, sp, s, e) ==
    /\ last' = Response("create", "", 0, "", "", "invalid")
    /\ UNCHANGED <<users, profiles, reservations, approvals,
                   notifications, req>>

\* A create view that saves whatever is posted.
CreateNoValidation(u, sp, s, e) ==
    /\ u \in users \cap Requesters
    /\ Len(reservations) < MaxReservations
    /\ form_valid(u, sp, s, e)

\* ReservationCreateView, POST.
Create(u, sp, s, e) ==
    /\ u \in users \cap Requesters
    /\ Len(reservations) < MaxReservations
    /\ IF ReservationClean(s, e)
       THEN form_valid(u, sp, s, e)
       ELSE form_invalid(u, sp, s, e)

\* The writes of a decision carried through.
Commit(a, pk, d, notes) ==
    /\ approvals' = [approvals EXCEPT
            ![pk] = update_or_create(@, a, d, notes)]
    /\ notifications' = NotificationCreate(notifications,
            reservations[pk].user, MessageOf(d))
    /\ reservations' = [reservations EXCEPT ![pk].status = StatusOf(d)]
    /\ last' = Response("decide", a, pk, d, notes, "ok")

\* approve_or_reject with the Approval row written before the conflict query.
DecideRecordFirst(a, pk, raw, notes) ==
    LET d == NormalizeDecision(raw) IN
    /\ a \in users /\ is_staff(a)
    /\ DecisionsDone < MaxDecisions
    /\ UNCHANGED <<users, profiles, req>>
    /\ IF pk \notin Pks
       THEN /\ last' = Response("decide", "", 0, "", "", "notfound")
            /\ UNCHANGED <<reservations, approvals, notifications>>
       ELSE IF ~ApprovalFormValid(d)
       THEN /\ last' = Response("decide", "", 0, "", "", "invalid")
            /\ UNCHANGED <<reservations, approvals, notifications>>
       ELSE IF d = "APPR" /\ conflict(reservations, pk)
       THEN /\ approvals' = [approvals EXCEPT
                    ![pk] = update_or_create(@, a, d, notes)]
            /\ last' = Response("decide", "", pk, d, "", "conflict")
            /\ UNCHANGED <<reservations, notifications>>
       ELSE Commit(a, pk, d, notes)

\* approve_or_reject with the conflict query run for every decision.
DecideCheckAlways(a, pk, raw, notes) ==
    LET d == NormalizeDecision(raw) IN
    /\ a \in users /\ is_staff(a)
    /\ DecisionsDone < MaxDecisions
    /\ UNCHANGED <<users, profiles, req>>
    /\ IF pk \notin Pks
       THEN /\ last' = Response("decide", "", 0, "", "", "notfound")
            /\ UNCHANGED <<reservations, approvals, notifications>>
       ELSE IF ~ApprovalFormValid(d)
       THEN /\ last' = Response("decide", "", 0, "", "", "invalid")
            /\ UNCHANGED <<reservations, approvals, notifications>>
       ELSE IF conflict(reservations, pk)
       THEN /\ last' = Response("decide", "", pk, d, "", "conflict")
            /\ UNCHANGED <<reservations, approvals, notifications>>
       ELSE Commit(a, pk, d, notes)

\* approve_or_reject, POST, the whole handler.
Decide(a, pk, raw, notes) ==
    LET d == NormalizeDecision(raw) IN
    /\ a \in users /\ is_staff(a)
    /\ DecisionsDone < MaxDecisions
    /\ UNCHANGED <<users, profiles, req>>
    /\ IF pk \notin Pks
       THEN /\ last' = Response("decide", "", 0, "", "", "notfound")
            /\ UNCHANGED <<reservations, approvals, notifications>>
       ELSE IF ~ApprovalFormValid(d)
       THEN /\ last' = Response("decide", "", 0, "", "", "invalid")
            /\ UNCHANGED <<reservations, approvals, notifications>>
       ELSE IF d = "APPR" /\ conflict(reservations, pk)
       THEN /\ last' = Response("decide", "", pk, d, "", "conflict")
            /\ UNCHANGED <<reservations, approvals, notifications>>
       ELSE Commit(a, pk, d, notes)

Next ==
    \/ \E u \in Requesters, sp \in Spaces, s \in Times, e \in Times :
            Create(u, sp, s, e)
    \/ \E a \in StaffUsers, pk \in 1..MaxReservations,
            raw \in RawDecisions, notes \in NoteValues :
            Decide(a, pk, raw, notes)

Spec == Init /\ [][Next]_vars

NextNotify ==
    \/ \E u \in PlainUsers : Register(u)
    \/ \E u \in AllUsers : ProfileView(u)
    \/ \E u \in Requesters, sp \in Spaces, s \in Times, e \in Times :
            Create(u, sp, s, e)

SpecNotify == Init /\ [][NextNotify]_vars

\* ------------------------------------------- interleaved approve_or_reject
\* One slot per approver; the requests run in separate workers and the view
\* opens no transaction, so every ORM call commits by itself.
\*   CheckStep  - get_object_or_404, the form and the conflict query
\*   RecordStep - Approval.objects.update_or_create
\*   SaveStep   - Notification.objects.create and reservation.save()
CheckStep(a, pk, raw, notes) ==
    LET d == NormalizeDecision(raw) IN
    /\ a \in users /\ is_staff(a)
    /\ req[a].pc = "idle"
    /\ DecisionsDone + Cardinality(InFlight) < MaxDecisions
    /\ pk \in Pks
    /\ ApprovalFormValid(d)
    /\ UNCHANGED <<users, profiles, reservations, approvals, notifications>>
    /\ IF d = "APPR" /\ conflict(reservations, pk)
       THEN /\ last' = Response("decide", "", pk, d, "", "conflict")
            /\ UNCHANGED req
       ELSE /\ req' = [req EXCEPT ![a] =
                    [pc |-> "record", pk |-> pk, decision |-> d,
                     notes |-> notes]]
            /\ UNCHANGED last

RecordStep(a) ==
    /\ req[a].pc = "record"
    /\ approvals' = [approvals EXCEPT ![req[a].pk] =
            update_or_create(@, a, req[a].decision, req[a].notes)]
    /\ req' = [req EXCEPT ![a].pc = "save"]
    /\ UNCHANGED <<users, profiles, reservations, notifications, last>>

SaveStep(a) ==
    /\ req[a].pc = "save"
    /\ notifications' = NotificationCreate(notifications,
            reservations[req[a].pk].user, MessageOf(req[a].decision))
    /\ reservations' = [reservations EXCEPT
            ![req[a].pk].status = StatusOf(req[a].decision)]
    /\ last' = Response("decide", a, req[a].pk, req[a].decision,
                        req[a].notes, "ok")
    /\ req' = [req EXCEPT ![a] = Idle]
    /\ UNCHANGED <<users, profiles, approvals>>

NextConc ==
    \/ \E u \in Requesters, sp \in Spaces, s \in Times, e \in Times :
            Create(u, sp, s, e)
    \/ \E a \in StaffUsers, pk \in 1..MaxReservations,
            raw \in RawDecisions, notes \in NoteValues :
            CheckStep(a, pk, raw, notes)
    \/ \E a \in StaffUsers : RecordStep(a)
    \/ \E a \in StaffUsers : SaveStep(a)

SpecConc == Init /\ [][NextConc]_vars

\* ------------------------------------------------------------ properties
\* Half-open rule: [s1,e1) and [s2,e2) overlap iff s1 < e2 and s2 < e1.
Overlap(r1, r2) == r1.start < r2.end /\ r2.start < r1.end

SameSpace(i, j) == reservations[i].space = reservations[j].space

\* Another reservation, Approved, in the space of pk, overlapping pk.
HasApprovedOverlap(pk) ==
    \E k \in Pks \ {pk} :
        /\ SameSpace(k, pk)
        /\ reservations[k].status = APPROVED
        /\ Overlap(reservations[k], reservations[pk])

\* The step answers a decision d posted for reservation pk.
DecisionStep(pk, d) ==
    /\ last'.op = "decide"
    /\ last'.pk = pk
    /\ last'.decision = d

\* C1: with requests run one at a time, no two distinct Approved
\* reservations of the same space overlap under the half-open rule.
C1_NoApprovedOverlap ==
    \A i \in Pks, j \in Pks :
        (/\ i # j
         /\ SameSpace(i, j)
         /\ reservations[i].status = APPROVED
         /\ reservations[j].status = APPROVED)
        => ~Overlap(reservations[i], reservations[j])

\* C1 witness: two Approved reservations share a space.
C1_Witness ==
    \E i \in Pks, j \in Pks :
        /\ i # j
        /\ SameSpace(i, j)
        /\ reservations[i].status = APPROVED
        /\ reservations[j].status = APPROVED

\* C2: when approvals of two overlapping reservations of one space interleave,
\* at most one of the two is Approved once both requests have finished.
C2_AtMostOneApproved ==
    InFlight = {} =>
        \A i \in Pks, j \in Pks :
            (i < j /\ SameSpace(i, j)
                   /\ Overlap(reservations[i], reservations[j]))
            => ~(/\ reservations[i].status = APPROVED
                 /\ reservations[j].status = APPROVED)

\* C3: an approve decision on a reservation that overlaps an Approved
\* reservation of its space is answered with the conflict error and writes
\* nothing: no status change, no Approval row, no Notification row.
C3_ConflictNoEffect ==
    [][\A pk \in Pks :
          (DecisionStep(pk, "APPR") /\ HasApprovedOverlap(pk))
          => /\ last'.result = "conflict"
             /\ reservations' = reservations
             /\ approvals' = approvals
             /\ notifications' = notifications]_vars

\* C3 witness: an approval of a Pending reservation was refused.
C3_Witness ==
    /\ last.op = "decide"
    /\ last.result = "conflict"
    /\ last.pk \in Pks
    /\ reservations[last.pk].status = PENDING
    /\ approvals[last.pk] = <<>>
    /\ HasApprovedOverlap(last.pk)

\* C4: an approve decision on a reservation that overlaps no other Approved
\* reservation of its space succeeds and sets the status to Approved; the
\* reservation itself, other spaces, Pending and Rejected reservations and
\* adjacent windows do not count as conflicts.
C4_ApproveSucceeds ==
    [][\A pk \in Pks :
          (DecisionStep(pk, "APPR") /\ ~HasApprovedOverlap(pk))
          => /\ last'.result = "ok"
             /\ reservations'[pk].status = APPROVED]_vars

\* C4 witness: a reservation was approved next to an adjacent Approved one.
C4_Witness ==
    /\ last.op = "decide"
    /\ last.decision = "APPR"
    /\ last.result = "ok"
    /\ \E k \in Pks \ {last.pk} :
        /\ SameSpace(k, last.pk)
        /\ reservations[k].status = APPROVED
        /\ reservations[k].end = reservations[last.pk].start

\* C5: a reject decision on an existing reservation succeeds whatever its
\* status and whatever overlaps it, and sets the status to Rejected.
C5_RejectSucceeds ==
    [][\A pk \in Pks :
          DecisionStep(pk, "REJ")
          => /\ last'.result = "ok"
             /\ reservations'[pk].status = REJECTED]_vars

\* C5 witness: a reservation overlapping an Approved one was rejected.
C5_Witness ==
    /\ last.op = "decide"
    /\ last.decision = "REJ"
    /\ last.result = "ok"
    /\ reservations[last.pk].status = REJECTED
    /\ HasApprovedOverlap(last.pk)

\* C6: a create request with a valid window always stores a new Pending
\* reservation, whatever reservations hold the window, and changes no
\* existing reservation.
C6_CreateAlwaysPending ==
    [][last'.op = "create" =>
        \A u \in Requesters, sp \in Spaces, s \in Times, e \in Times :
            (Create(u, sp, s, e) /\ s < e)
            => /\ last'.result = "ok"
               /\ Len(reservations') = Len(reservations) + 1
               /\ reservations'[Len(reservations')] =
                    [user |-> u, space |-> sp, start |-> s, end |-> e,
                     status |-> PENDING]
               /\ \A k \in Pks : reservations'[k] = reservations[k]]_vars

\* C6 witness: a reservation was created for a space and window that a
\* Pending reservation already holds.
C6_Witness ==
    /\ last.op = "create"
    /\ last.result = "ok"
    /\ reservations[last.pk].status = PENDING
    /\ \E k \in Pks \ {last.pk} :
        /\ SameSpace(k, last.pk)
        /\ reservations[k].start = reservations[last.pk].start
        /\ reservations[k].end = reservations[last.pk].end
        /\ reservations[k].status = PENDING

\* C7: whenever no decision is in progress, a reservation with an Approval
\* row has the status of that row's decision and one without is Pending.
C7_StatusReflectsRecord ==
    InFlight = {} =>
        \A pk \in Pks :
            IF approvals[pk] = <<>>
            THEN reservations[pk].status = PENDING
            ELSE reservations[pk].status =
                    StatusOf(LatestApproval(approvals[pk])[1].decision)

\* C8: a decision carried through leaves exactly one Approval row for the
\* reservation, holding the approver, decision and notes of that decision;
\* it is the row the export reads.
C8_SingleRecord ==
    [][(last'.op = "decide" /\ last'.result = "ok") =>
        /\ Len(approvals'[last'.pk]) = 1
        /\ LatestApproval(approvals'[last'.pk]) =
                <<Row(last'.user, last'.decision, last'.notes)>>
        /\ \A k \in Pks \ {last'.pk} : approvals'[k] = approvals[k]]_vars

\* C8 witness: a reservation was decided a second time.
C8_Witness ==
    /\ last.op = "decide"
    /\ last.result = "ok"
    /\ DecisionsDone >= 2
    /\ \A k \in Pks \ {last.pk} : approvals[k] = <<>>
    /\ Len(approvals[last.pk]) = 1

\* C9: a creation writes exactly one notification for every staff user and
\* none for any other user.
C9_EveryStaffNotified ==
    [][(/\ last'.op = "create"
        /\ last'.result = "ok"
        /\ Len(reservations') = Len(reservations) + 1)
       => \A u \in AllUsers :
            notifications'[<<u, MsgNew>>] =
                notifications[<<u, MsgNew>>]
                    + (IF u \in users /\ is_staff(u) THEN 1 ELSE 0)]_vars

====
